---------------------------- MODULE Spec2Model ----------------------------
(***************************************************************************)
(* Model of the cornershop price scraper: get_prices.py (fetch, flatten    *)
(* into a dataframe, export) and src/get_json.py (fetch, flatten, save as  *)
(* JSON, iterated over a list of search terms).                            *)
(*                                                                         *)
(* JSON values are tagged records.  A Python exception that leaves an      *)
(* expression is the value Raise(name); every operator below propagates    *)
(* it the way the interpreter unwinds.                                     *)
(***************************************************************************)
EXTENDS Integers, Sequences, FiniteSets, TLC

VARIABLES
    pc,        \* position of the running script or of the operation under test
    today,     \* the calendar date the clock shows
    data,      \* create_row argument: the store result
    aisle,     \* create_row argument: the aisle
    product,   \* create_row argument: the product
    path,      \* get_nested argument: the key path
    results,   \* flattener argument (product_results / json_data)
    ret,       \* value returned, or exception raised, by the last call
    script,    \* which script runs: "get_prices" or "get_json"
    format,    \* --format argument of get_prices.py
    raw,       \* raw_json_data
    dirs,      \* file system: existing directories
    files,     \* file system: path -> content
    log,       \* records emitted through the logging module
    called,    \* functions entered so far
    now,       \* wall clock, in seconds
    idx,       \* position of the batch loop: category c, item i
    net,       \* how the last HTTP request ended
    io         \* how the last file-system call ended

rowVars  == <<data, aisle, product, path>>
pipeVars == <<script, format, raw, dirs, files, log, called, now, idx, net, io>>
vars     == <<pc, today, data, aisle, product, path, results, ret,
              script, format, raw, dirs, files, log, called, now, idx, net, io>>

---------------------------------------------------------------------------
(* Bounds of the model. *)
MaxStores   == 2
MaxAisles   == 2
MaxProducts == 2
MaxItems    == 2

---------------------------------------------------------------------------
(* JSON values and the Python operations the scripts apply to them. *)

Null    == [t |-> "null"]
Str(s)  == [t |-> "str", s |-> s]
\* a JSON number; amounts are kept in tenths (5.5 is Num(55))
Num(n)  == [t |-> "num", n |-> n]
Dict(f) == [t |-> "dict", d |-> f]
List(l) == [t |-> "list", l |-> l]
Raise(e) == [t |-> "raise", e |-> e]

\* marks a key left out of an object literal, and a variable not yet bound
Absent  == [t |-> "absent"]
Obj(f)  == Dict([k \in {j \in DOMAIN f : f[j] # Absent} |-> f[k]])

IsRaise(v) == v.t = "raise"

\* x.get(k, default)
PyGet(x, k, default) ==
    IF IsRaise(x) THEN x
    ELSE IF x.t # "dict" THEN Raise("AttributeError")
    ELSE IF k \in DOMAIN x.d THEN x.d[k]
    ELSE default

RECURSIVE SetToSeq(_)
SetToSeq(S) ==
    IF S = {} THEN <<>>
    ELSE LET k == CHOOSE e \in S : TRUE IN <<k>> \o SetToSeq(S \ {k})

\* the items `for v in x` binds: the elements of a list, the keys of a
\* dict, the characters of a str; anything else is not iterable
PyIter(x) ==
    IF IsRaise(x) THEN x
    ELSE IF x.t = "list" THEN x
    ELSE IF x.t = "dict"
        THEN LET ks == SetToSeq(DOMAIN x.d)
             IN List([i \in 1..Len(ks) |-> Str(ks[i])])
    ELSE IF x.t = "str"
        THEN List([i \in 1..Len(x.s) |-> Str(SubSeq(x.s, i, i))])
    ELSE Raise("TypeError")

\* bool(x)
PyTruthy(x) ==
    CASE x.t = "null" -> FALSE
      [] x.t = "str"  -> x.s # ""
      [] x.t = "num"  -> x.n # 0
      [] x.t = "dict" -> DOMAIN x.d # {}
      [] x.t = "list" -> x.l # <<>>

\* a dict literal {k1: e1, k2: e2, ...}: the entries are evaluated in
\* order and the first exception leaves the literal
RECURSIVE FirstRaise(_, _)
FirstRaise(order, f) ==
    IF order = <<>> THEN Absent
    ELSE IF IsRaise(f[Head(order)]) THEN f[Head(order)]
    ELSE FirstRaise(Tail(order), f)

DictLiteral(order, f) ==
    LET r == FirstRaise(order, f) IN IF r = Absent THEN Dict(f) ELSE r

Pad2(n) == IF n < 10 THEN "0" \o ToString(n) ELSE ToString(n)

\* datetime.date.today().isoformat()
isoformat(d) == Str(ToString(d.y) \o "-" \o Pad2(d.m) \o "-" \o Pad2(d.d))

\* datetime.today().strftime("%d-%m-%Y")
strftime_dmY(d) == Str(Pad2(d.d) \o "-" \o Pad2(d.m) \o "-" \o ToString(d.y))

---------------------------------------------------------------------------
(* src/get_json.py: get_nested, create_row, create_data *)

RECURSIVE get_nested(_, _)
get_nested(d, args) ==
    IF args = <<>> THEN d
    ELSE IF d = Null THEN Null
    ELSE LET nxt == PyGet(d, Head(args), Null)
         IN IF IsRaise(nxt) THEN nxt ELSE get_nested(nxt, Tail(args))

JsonKeys == <<"date", "aisle_name", "product_name", "brand", "price",
              "package", "store_name", "store_city", "search_term">>

json_create_row(dt, d, a, p) ==
    DictLiteral(JsonKeys,
        [date         |-> strftime_dmY(dt),
         aisle_name   |-> PyGet(a, "aisle_name", Null),
         product_name |-> PyGet(p, "name", Null),
         brand        |-> get_nested(p, <<"brand", "name">>),
         price        |-> get_nested(p, <<"pricing", "price", "amount">>),
         package      |-> PyGet(p, "package", Null),
         store_name   |-> get_nested(d, <<"store", "name">>),
         store_city   |-> get_nested(d, <<"store", "closest_branch", "city">>),
         search_term  |-> get_nested(d, <<"search_result", "search_term">>)])

\* mutant: the rows of an aisle collected in reverse
RECURSIVE JsonRowsOfProducts_Reversed(_, _, _, _)
JsonRowsOfProducts_Reversed(dt, d, a, ps) ==
    IF ps = <<>> THEN List(<<>>)
    ELSE LET r == json_create_row(dt, d, a, Head(ps))
         IN IF IsRaise(r) THEN r
            ELSE LET rest == JsonRowsOfProducts_Reversed(dt, d, a, Tail(ps))
                 IN IF IsRaise(rest) THEN rest ELSE List(rest.l \o <<r>>)

RECURSIVE JsonRowsOfProducts(_, _, _, _)
JsonRowsOfProducts(dt, d, a, ps) ==
    IF ps = <<>> THEN List(<<>>)
    ELSE LET r == json_create_row(dt, d, a, Head(ps))
         IN IF IsRaise(r) THEN r
            ELSE LET rest == JsonRowsOfProducts(dt, d, a, Tail(ps))
                 IN IF IsRaise(rest) THEN rest ELSE List(<<r>> \o rest.l)

\* for product in aisle.get("products", [])
JsonAisleProducts(a) == PyIter(PyGet(a, "products", List(<<>>)))

RECURSIVE JsonRowsOfAisles(_, _, _)
JsonRowsOfAisles(dt, d, as) ==
    IF as = <<>> THEN List(<<>>)
    ELSE LET ps == JsonAisleProducts(Head(as))
             r  == IF IsRaise(ps) THEN ps
                   ELSE JsonRowsOfProducts(dt, d, Head(as), ps.l)
         IN IF IsRaise(r) THEN r
            ELSE LET rest == JsonRowsOfAisles(dt, d, Tail(as))
                 IN IF IsRaise(rest) THEN rest ELSE List(r.l \o rest.l)

\* for aisle in get_nested(data, "search_result", "aisles")
JsonStoreAisles(d) == PyIter(get_nested(d, <<"search_result", "aisles">>))

RECURSIVE JsonRowsOfStores(_, _)
JsonRowsOfStores(dt, ds) ==
    IF ds = <<>> THEN List(<<>>)
    ELSE LET as == JsonStoreAisles(Head(ds))
             r  == IF IsRaise(as) THEN as
                   ELSE JsonRowsOfAisles(dt, Head(ds), as.l)
         IN IF IsRaise(r) THEN r
            ELSE LET rest == JsonRowsOfStores(dt, Tail(ds))
                 IN IF IsRaise(rest) THEN rest ELSE List(r.l \o rest.l)

create_data(dt, res) ==
    LET ds == PyIter(res)
    IN IF IsRaise(ds) THEN ds ELSE JsonRowsOfStores(dt, ds.l)

---------------------------------------------------------------------------
(* get_prices.py: create_dataframe and its inner create_row *)

PricesKeys == <<"Date", "Product Price", "Package", "Search Term", "Brand",
                "Brand ID", "Aisle Name", "Product Name", "Product ID",
                "Store Name", "Store ID", "Store City">>

EmptyDict == Dict(<<>>)
EmptyList == List(<<>>)
EmptyStr  == Str("")

prices_create_row(dt, d, a, p) ==
    DictLiteral(PricesKeys,
        "Date"          :> isoformat(dt)
     @@ "Product Price" :> PyGet(PyGet(PyGet(p, "pricing", EmptyDict),
                                       "price", EmptyDict), "amount", EmptyStr)
     @@ "Package"       :> PyGet(p, "package", EmptyStr)
     @@ "Search Term"   :> PyGet(PyGet(d, "search_result", EmptyDict),
                                 "search_term", EmptyStr)
     @@ "Brand"         :> PyGet(PyGet(p, "brand", EmptyList), "name", EmptyStr)
     @@ "Brand ID"      :> PyGet(PyGet(p, "brand", EmptyList), "id", EmptyStr)
     @@ "Aisle Name"    :> PyGet(a, "aisle_name", EmptyStr)
     @@ "Product Name"  :> PyGet(p, "name", EmptyStr)
     @@ "Product ID"    :> PyGet(p, "id", EmptyStr)
     @@ "Store Name"    :> PyGet(PyGet(d, "store", EmptyDict), "name", EmptyStr)
     @@ "Store ID"      :> PyGet(PyGet(d, "store", EmptyDict), "id", EmptyStr)
     @@ "Store City"    :> PyGet(PyGet(PyGet(d, "store", EmptyDict),
                                       "closest_branch", EmptyDict),
                                 "city", EmptyStr))

RECURSIVE PricesRowsOfProducts(_, _, _, _)
PricesRowsOfProducts(dt, d, a, ps) ==
    IF ps = <<>> THEN List(<<>>)
    ELSE LET r == prices_create_row(dt, d, a, Head(ps))
         IN IF IsRaise(r) THEN r
            ELSE LET rest == PricesRowsOfProducts(dt, d, a, Tail(ps))
                 IN IF IsRaise(rest) THEN rest ELSE List(<<r>> \o rest.l)

\* for product in aisle.get("products", [])
PricesAisleProducts(a) == PyIter(PyGet(a, "products", EmptyList))

RECURSIVE PricesRowsOfAisles(_, _, _)
PricesRowsOfAisles(dt, d, as) ==
    IF as = <<>> THEN List(<<>>)
    ELSE LET ps == PricesAisleProducts(Head(as))
             r  == IF IsRaise(ps) THEN ps
                   ELSE PricesRowsOfProducts(dt, d, Head(as), ps.l)
         IN IF IsRaise(r) THEN r
            ELSE LET rest == PricesRowsOfAisles(dt, d, Tail(as))
                 IN IF IsRaise(rest) THEN rest ELSE List(r.l \o rest.l)

\* for aisle in data.get("search_result", {}).get("aisles", [])
PricesStoreAisles(d) ==
    PyIter(PyGet(PyGet(d, "search_result", EmptyDict), "aisles", EmptyList))

RECURSIVE PricesRowsOfStores(_, _)
PricesRowsOfStores(dt, ds) ==
    IF ds = <<>> THEN List(<<>>)
    ELSE LET as == PricesStoreAisles(Head(ds))
             r  == IF IsRaise(as) THEN as
                   ELSE PricesRowsOfAisles(dt, Head(ds), as.l)
         IN IF IsRaise(r) THEN r
            ELSE LET rest == PricesRowsOfStores(dt, Tail(ds))
                 IN IF IsRaise(rest) THEN rest ELSE List(r.l \o rest.l)

\* the dataframe is modelled by the list of its rows
create_dataframe(dt, res) ==
    LET ds == PyIter(res)
    IN IF IsRaise(ds) THEN ds ELSE PricesRowsOfStores(dt, ds.l)

---------------------------------------------------------------------------
(* The inputs the operations are applied to. *)

Dates == {[y |-> 2023, m |-> 7, d |-> 9], [y |-> 2023, m |-> 12, d |-> 31]}

FullBrand   == Obj([name |-> Str("B"), id |-> Num(2)])
FullPricing == Obj([price |-> Obj([amount |-> Num(55)])])

Brands   == {Absent, Null, EmptyDict, Obj([name |-> Null]), FullBrand}
Pricings == {Absent, Null, EmptyDict, Obj([price |-> Null]),
             Obj([price |-> EmptyDict]), Obj([price |-> Obj([amount |-> Null])]),
             FullPricing}
Packages == {Absent, Str("1L")}

Products ==
    {Obj([name |-> Str("Milk 1L"), id |-> Num(9), brand |-> b, pricing |-> p,
          package |-> g]) : b \in Brands, p \in Pricings, g \in Packages}

FullStore ==
    Obj([name |-> Str("S1"), id |-> Num(1),
         closest_branch |-> Obj([city |-> Str("X")])])

StoreValues  == {Absent, Null, EmptyDict, FullStore,
                 Obj([name |-> Str("S1"), closest_branch |-> Null])}
SearchValues == {Absent, Null, EmptyDict, Obj([search_term |-> Str("milk")])}

Datas  == {Obj([store |-> s, search_result |-> r]) :
              s \in StoreValues, r \in SearchValues}
Aisles == {EmptyDict, Obj([aisle_name |-> Str("Dairy")])}

\* the key paths create_row follows, from the product and from the store result
ProductPaths == {<<"brand", "name">>, <<"pricing", "price", "amount">>,
                 <<"package">>}
DataPaths    == {<<"store", "name">>, <<"store", "closest_branch", "city">>,
                 <<"search_result", "search_term">>}

\* store results are built by position: store s, aisle a, product p
CityOf(s)    == SubSeq("XYZWVUTSRQ", s, s)
AisleName(a) == IF a = 1 THEN "Dairy" ELSE "Aisle" \o ToString(a)

ProductAt(p, nP, kind) ==
    LET q == IF kind = "same" THEN 1 ELSE p
    IN Obj([name    |-> Str("Milk " \o ToString(q) \o "L"),
            id      |-> Num(8 + q),
            brand   |-> IF kind = "nobrand" /\ p = nP THEN Absent
                        ELSE FullBrand,
            pricing |-> Obj([price |-> Obj([amount |-> Num(55 * q)])]),
            package |-> Str(ToString(q) \o "L")])

AisleAt(a, nP, kind) ==
    Obj([aisle_name |-> Str(AisleName(a)),
         products   |-> IF kind = "noproducts" THEN Absent
                        ELSE List([p \in 1..nP |-> ProductAt(p, nP, kind)])])

\* the shapes of a store result: nA aisles of nP products each, the products
\* all different ("distinct"), all the same one ("same"), or the last one
\* without a brand ("nobrand"); an aisle without a `products` key; no
\* `aisles` key; no `search_result`
StoreShapes ==
    [kind : {"aisles"}, nA : {0}, nP : {0}, pk : {"distinct"}]
    \cup [kind : {"aisles"}, nA : 1..MaxAisles, nP : 0..MaxProducts,
          pk : {"distinct"}]
    \cup [kind : {"aisles"}, nA : 1..MaxAisles, nP : {MaxProducts},
          pk : {"same", "nobrand"}]
    \cup [kind : {"aisles"}, nA : {1}, nP : {0}, pk : {"noproducts"}]
    \cup [kind : {"no_aisles", "no_search_result"}, nA : {0}, nP : {0},
          pk : {"distinct"}]

StoreAt(s, sh) ==
    Obj([store |->
            Obj([name |-> Str("S" \o ToString(s)), id |-> Num(s),
                 closest_branch |-> Obj([city |-> Str(CityOf(s))])]),
         search_result |->
            IF sh.kind = "no_search_result" THEN Absent
            ELSE Obj([search_term |-> Str("milk"),
                      aisles |->
                        IF sh.kind = "no_aisles" THEN Absent
                        ELSE List([a \in 1..sh.nA |->
                                      AisleAt(a, sh.nP, sh.pk)])])])

\* the response of the end-to-end scenario
ScenarioResults ==
    List(<<Dict([store |-> Dict([name |-> Str("S1"), id |-> Num(1),
                     closest_branch |-> Dict([city |-> Str("X")])]),
                 search_result |-> Dict([search_term |-> Str("milk"),
                     aisles |-> List(<<Dict([aisle_name |-> Str("Dairy"),
                         products |-> List(<<Dict([name |-> Str("Milk 1L"),
                             id |-> Num(9),
                             brand |-> Dict([name |-> Str("B"), id |-> Num(2)]),
                             pricing |-> Dict([price |-> Dict([amount |-> Num(55)])]),
                             package |-> Str("1L")])>>)])>>)])])>>)

ResultsOf(f) == List([s \in 1..Len(f) |-> StoreAt(s, f[s])])

---------------------------------------------------------------------------
(* SpecRow: create_row of both scripts and get_nested, applied to every    *)
(* store result, aisle and product of the input sets.                      *)

pipeIdle ==
    /\ script = "none" /\ format = "none" /\ raw = Absent
    /\ dirs = {} /\ files = <<>> /\ log = <<>> /\ called = {}
    /\ now = 0 /\ idx = [c |-> 0, i |-> 0] /\ net = "none" /\ io = "none"

InitRow ==
    /\ pc = "start"
    /\ today \in Dates
    /\ data \in Datas
    /\ aisle \in Aisles
    /\ product \in Products
    /\ path = [root |-> "none", keys |-> <<>>]
    /\ results = Absent
    /\ ret = Absent
    /\ pipeIdle

PricesCreateRow ==
    /\ pc = "start"
    /\ ret' = prices_create_row(today, data, aisle, product)
    /\ pc' = "prices_create_row"
    /\ UNCHANGED <<today, rowVars, results, pipeVars>>

JsonCreateRow ==
    /\ pc = "start"
    /\ ret' = json_create_row(today, data, aisle, product)
    /\ pc' = "json_create_row"
    /\ UNCHANGED <<today, rowVars, results, pipeVars>>

GetNested ==
    /\ pc = "start"
    /\ \E p \in [root : {"product"}, keys : ProductPaths]
              \cup [root : {"data"}, keys : DataPaths] :
          /\ path' = p
          /\ ret' = get_nested(IF p.root = "product" THEN product ELSE data,
                               p.keys)
    /\ pc' = "get_nested"
    /\ UNCHANGED <<today, data, aisle, product, results, pipeVars>>

NextRow == PricesCreateRow \/ JsonCreateRow \/ GetNested

SpecRow == InitRow /\ [][NextRow]_vars

---------------------------------------------------------------------------
(* SpecFlat: the two flatteners applied to every list of store results.    *)

InitFlat ==
    /\ pc = "start"
    /\ today = [y |-> 2023, m |-> 7, d |-> 9]
    /\ data = Absent /\ aisle = Absent /\ product = Absent
    /\ path = [root |-> "none", keys |-> <<>>]
    /\ \E n \in 0..MaxStores : \E f \in [1..n -> StoreShapes] :
          results = ResultsOf(f)
    /\ ret = Absent
    /\ pipeIdle

CreateDataframe ==
    /\ pc = "start"
    /\ ret' = create_dataframe(today, results)
    /\ pc' = "create_dataframe"
    /\ UNCHANGED <<today, rowVars, results, pipeVars>>

CreateData ==
    /\ pc = "start"
    /\ ret' = create_data(today, results)
    /\ pc' = "create_data"
    /\ UNCHANGED <<today, rowVars, results, pipeVars>>

NextFlat == CreateDataframe \/ CreateData

SpecFlat == InitFlat /\ [][NextFlat]_vars

---------------------------------------------------------------------------
(* Spec: the two scripts run end to end.  get_prices.py runs                *)
(* fetch_and_export_product_data once; src/get_json.py runs get_and_create *)
(* for every item of every category of `supermercado`.                     *)

SupportedFormats == {"csv", "parquet", "json"}
Formats          == SupportedFormats \cup {"xml"}

\* the ways requests.get / raise_for_status / response.json() can fail
NetFailures == {"http_error", "transport_error", "invalid_json"}

\* bodies the API may answer with
Responses ==
    {Dict([results |-> ScenarioResults]),
     Obj([results |-> List(<<StoreAt(1, [kind |-> "no_aisles", nA |-> 0,
                                         nP |-> 0, pk |-> "distinct"])>>)]),
     Obj([results |-> EmptyList]),
     EmptyDict,
     Obj([count |-> Num(0)]),
     Obj([results |-> Null]),
     Obj([results |-> EmptyDict]),
     Obj([results |-> Obj([error |-> Str("x")])]),
     Obj([results |-> EmptyStr]),
     Obj([results |-> Str("ab")]),
     Obj([results |-> Num(3)]),
     List(<<Num(1)>>)}

\* --dir_path and --base_name of get_prices.py; CS_DIRECTORY/data and
\* CS_CODE of get_json.py
PricesDir  == "./data/"
PricesBase == "product_data"
JsonDir    == "base_dir/data"
JsonCode   == "88010560"

\* the list of categories imported from `listas`, each a list of terms
supermercado ==
    <<[i \in 1..MaxItems |-> "item" \o ToString(i)], <<"item1">>>>

LogRecord(level, msg, p) == [level |-> level, msg |-> msg, path |-> p]

\* a file written to the end, and one left behind by a failed write
Written(rows, fmt) == [complete |-> TRUE, fmt |-> fmt, rows |-> rows]
PartialFile(fmt)   == [complete |-> FALSE, fmt |-> fmt, rows |-> <<>>]

OldFile == [dir |-> PricesDir, base |-> PricesBase, ts |-> 0, ext |-> "csv"]

Init ==
    /\ today = [y |-> 2023, m |-> 7, d |-> 9]
    /\ data = Absent /\ aisle = Absent /\ product = Absent
    /\ path = [root |-> "none", keys |-> <<>>]
    /\ results = Absent
    /\ ret = Absent
    /\ raw = Absent
    /\ script \in {"get_prices", "get_json"}
    /\ IF script = "get_prices"
       THEN /\ pc = "p_fetch"
            /\ format \in Formats
            /\ dirs \in {{}, {PricesDir}}
            /\ files \in {<<>>, OldFile :> Written(<<>>, "csv")}
       ELSE /\ pc = "j_loop"
            /\ format = "none"
            /\ dirs \in {{}, {JsonDir}}
            /\ files = <<>>
    /\ log = <<>>
    /\ called = {}
    /\ now = 1
    /\ idx = [c |-> 1, i |-> 1]
    /\ net = "none"
    /\ io = "none"

flatVars == <<today, data, aisle, product, path>>

(* get_prices.py *)

\* get_product_data: one GET; HTTPError and RequestException are logged and
\* None is returned.  response.json() on an invalid body raises a
\* RequestException subclass (caught) or a plain ValueError (not caught),
\* depending on the installed requests.
Prices_get_product_data ==
    /\ pc = "p_fetch"
    /\ called' = called \cup {"get_product_data"}
    /\ \/ \E r \in Responses :
             /\ net' = "ok" /\ raw' = r /\ log' = log
             /\ pc' = "p_check" /\ ret' = ret
       \/ /\ net' = "http_error" /\ raw' = Null
          /\ log' = Append(log, LogRecord("error", "HTTP error occurred", Absent))
          /\ pc' = "p_check" /\ ret' = ret
       \/ /\ net' = "transport_error" /\ raw' = Null
          /\ log' = Append(log,
                LogRecord("error", "Other Requests error occurred", Absent))
          /\ pc' = "p_check" /\ ret' = ret
       \/ /\ net' = "invalid_json" /\ raw' = Null
          /\ \/ /\ log' = Append(log,
                      LogRecord("error", "Other Requests error occurred", Absent))
                /\ pc' = "p_check" /\ ret' = ret
             \/ /\ log' = log
                /\ pc' = "raised" /\ ret' = Raise("ValueError")
    /\ UNCHANGED <<flatVars, results, script, format, dirs, files, now, idx, io>>

\* fetch_and_export_product_data, lines 187-195: the two early returns
Prices_check_results ==
    /\ pc = "p_check"
    /\ IF ~PyTruthy(raw)
       THEN /\ log' = Append(log, LogRecord("warning", "No data returned.", Absent))
            /\ pc' = "returned"
            /\ UNCHANGED <<results, ret>>
       ELSE LET product_results == PyGet(raw, "results", EmptyList)
            IN IF IsRaise(product_results)
               THEN /\ pc' = "raised" /\ ret' = product_results
                    /\ UNCHANGED <<results, log>>
               ELSE IF product_results.t # "list"
               THEN /\ log' = Append(log, LogRecord("warning",
                          "'results' is not present or not a list", Absent))
                    /\ pc' = "returned"
                    /\ UNCHANGED <<results, ret>>
               ELSE /\ results' = product_results
                    /\ pc' = "p_flatten"
                    /\ UNCHANGED <<ret, log>>
    /\ UNCHANGED <<flatVars, script, format, raw, dirs, files, called, now,
                   idx, net, io>>

Prices_create_dataframe ==
    /\ pc = "p_flatten"
    /\ called' = called \cup {"create_dataframe"}
    /\ ret' = create_dataframe(today, results)
    /\ pc' = IF IsRaise(ret') THEN "raised" ELSE "p_export"
    /\ UNCHANGED <<flatVars, results, script, format, raw, dirs, files, log,
                   now, idx, net, io>>

\* mutant: the directory is created before the format is checked
Prices_export_validate_Late ==
    /\ pc = "p_export"
    /\ called' = called \cup {"export_data"}
    /\ dirs' = dirs \cup {PricesDir}
    /\ IF format \notin SupportedFormats
       THEN pc' = "raised" /\ ret' = Raise("ValueError")
       ELSE pc' = "p_makedirs" /\ ret' = ret
    /\ UNCHANGED <<flatVars, results, script, format, raw, files, log,
                   now, idx, net, io>>

\* export_data, lines 132-138
Prices_export_validate ==
    /\ pc = "p_export"
    /\ called' = called \cup {"export_data"}
    /\ IF format \notin SupportedFormats
       THEN pc' = "raised" /\ ret' = Raise("ValueError")
       ELSE pc' = "p_makedirs" /\ ret' = ret
    /\ UNCHANGED <<flatVars, results, script, format, raw, dirs, files, log,
                   now, idx, net, io>>

\* export_data, line 141: os.makedirs(dir_path, exist_ok=True), outside the
\* try block
Prices_makedirs ==
    /\ pc = "p_makedirs"
    /\ called' = called \cup {"makedirs"}
    /\ \/ /\ io' = "ok" /\ dirs' = dirs \cup {PricesDir}
          /\ pc' = "p_write" /\ ret' = ret
       \/ /\ PricesDir \notin dirs
          /\ io' = "makedirs_failed" /\ dirs' = dirs
          /\ pc' = "raised" /\ ret' = Raise("OSError")
    /\ UNCHANGED <<flatVars, results, script, format, raw, files, log, now,
                   idx, net>>

\* mutant: the handler logs the failed write and does not raise again
Prices_write_Swallow ==
    /\ pc = "p_write"
    /\ called' = called \cup {"write"}
    /\ LET file_path == [dir |-> PricesDir, base |-> PricesBase, ts |-> now,
                         ext |-> format]
       IN \/ /\ io' = "ok"
             /\ files' = (file_path :> Written(ret.l, format)) @@ files
             /\ log' = Append(log,
                   LogRecord("info", "Data successfully exported", file_path))
          \/ /\ io' = "write_failed"
             /\ files' \in {files, (file_path :> PartialFile(format)) @@ files}
             /\ log' = Append(log, LogRecord("error",
                   "An error occurred while exporting data", file_path))
    /\ pc' = "done" /\ ret' = ret
    /\ UNCHANGED <<flatVars, results, script, format, raw, dirs, now, idx, net>>

\* export_data, lines 143-161: the write, inside try / except Exception
Prices_write ==
    /\ pc = "p_write"
    /\ called' = called \cup {"write"}
    /\ LET file_path == [dir |-> PricesDir, base |-> PricesBase, ts |-> now,
                         ext |-> format]
       IN \/ /\ io' = "ok"
             /\ files' = (file_path :> Written(ret.l, format)) @@ files
             /\ log' = Append(log,
                   LogRecord("info", "Data successfully exported", file_path))
             /\ pc' = "done" /\ ret' = ret
          \/ /\ io' = "write_failed"
             /\ files' \in {files, (file_path :> PartialFile(format)) @@ files}
             /\ log' = Append(log, LogRecord("error",
                   "An error occurred while exporting data", file_path))
             /\ pc' = "raised" /\ ret' = Raise("OSError")
    /\ UNCHANGED <<flatVars, results, script, format, raw, dirs, now, idx, net>>

(* src/get_json.py *)

Items(c) == supermercado[c]

\* the two for loops of the script: the next item, or the end of the list
Json_next_item ==
    /\ pc = "j_loop"
    /\ IF idx.c > Len(supermercado) THEN pc' = "done" /\ idx' = idx
       ELSE IF idx.i > Len(Items(idx.c))
       THEN pc' = "j_loop" /\ idx' = [c |-> idx.c + 1, i |-> 1]
       ELSE pc' = "j_fetch" /\ idx' = idx
    /\ called' = {}
    /\ UNCHANGED <<flatVars, results, ret, script, format, raw, dirs, files,
                   log, now, net, io>>

\* mutant: a failed request is logged and an empty body returned
Json_get_product_data_Swallow ==
    /\ pc = "j_fetch"
    /\ called' = called \cup {"get_product_data"}
    /\ now' = now + 2
    /\ \/ \E r \in Responses :
             /\ net' = "ok" /\ raw' = r /\ log' = log
       \/ \E f \in NetFailures :
             /\ net' = f /\ raw' = EmptyDict
             /\ log' = Append(log, LogRecord("error",
                   "Error occurred while fetching product data", Absent))
    /\ pc' = "j_flatten" /\ ret' = ret
    /\ UNCHANGED <<flatVars, results, script, format, dirs, files, idx, io>>

\* get_product_data: sleep(2), one GET; every failure is raised as APIError
Json_get_product_data ==
    /\ pc = "j_fetch"
    /\ called' = called \cup {"get_product_data"}
    /\ now' = now + 2
    /\ \/ \E r \in Responses :
             /\ net' = "ok" /\ raw' = r /\ log' = log
             /\ pc' = "j_flatten" /\ ret' = ret
       \/ \E f \in {"http_error", "transport_error"} :
             /\ net' = f /\ raw' = raw
             /\ log' = Append(log, LogRecord("error",
                   "Error occurred while fetching product data", Absent))
             /\ pc' = "raised" /\ ret' = Raise("APIError")
       \/ /\ net' = "invalid_json" /\ raw' = raw /\ log' = log
          /\ pc' = "raised" /\ ret' = Raise("APIError")
    /\ UNCHANGED <<flatVars, results, script, format, dirs, files, idx, io>>

\* get_and_create, lines 129-130
Json_create_data ==
    /\ pc = "j_flatten"
    /\ called' = called \cup {"create_data"}
    /\ LET json_data == PyGet(raw, "results", EmptyList)
       IN IF IsRaise(json_data)
          THEN ret' = json_data /\ results' = results
          ELSE ret' = create_data(today, json_data) /\ results' = json_data
    /\ pc' = IF IsRaise(ret') THEN "raised" ELSE "j_makedirs"
    /\ UNCHANGED <<flatVars, script, format, raw, dirs, files, log, now, idx,
                   net, io>>

\* get_and_create, lines 132-133
Json_makedirs ==
    /\ pc = "j_makedirs"
    /\ called' = called \cup {"makedirs"}
    /\ \/ /\ io' = "ok" /\ dirs' = dirs \cup {JsonDir}
          /\ pc' = "j_save" /\ ret' = ret
       \/ /\ JsonDir \notin dirs
          /\ io' = "makedirs_failed" /\ dirs' = dirs
          /\ pc' = "raised" /\ ret' = Raise("OSError")
    /\ UNCHANGED <<flatVars, results, script, format, raw, files, log, now,
                   idx, net>>

\* mutant: a failed save is reported and the loop goes on, as dump_to_file
\* of get_prices.py does
Json_save_as_json_Swallow ==
    /\ pc = "j_save"
    /\ called' = called \cup {"save_as_json"}
    /\ LET save_path == [dir |-> JsonDir,
                         base |-> Items(idx.c)[idx.i] \o "_" \o JsonCode,
                         ts |-> now, ext |-> "json"]
       IN \/ /\ io' = "ok"
             /\ files' = (save_path :> Written(ret.l, "json")) @@ files
          \/ /\ io' = "write_failed"
             /\ files' \in {files, (save_path :> PartialFile("json")) @@ files}
    /\ pc' = "j_loop" /\ ret' = ret
    /\ idx' = [idx EXCEPT !.i = @ + 1]
    /\ UNCHANGED <<flatVars, results, script, format, raw, dirs, log, now, net>>

\* get_and_create, lines 134-140, and save_as_json
Json_save_as_json ==
    /\ pc = "j_save"
    /\ called' = called \cup {"save_as_json"}
    /\ LET save_path == [dir |-> JsonDir,
                         base |-> Items(idx.c)[idx.i] \o "_" \o JsonCode,
                         ts |-> now, ext |-> "json"]
       IN \/ /\ io' = "ok"
             /\ files' = (save_path :> Written(ret.l, "json")) @@ files
             /\ pc' = "j_loop" /\ ret' = ret
             /\ idx' = [idx EXCEPT !.i = @ + 1]
          \/ /\ io' = "write_failed"
             /\ files' \in {files, (save_path :> PartialFile("json")) @@ files}
             /\ pc' = "raised" /\ ret' = Raise("OSError")
             /\ idx' = idx
    /\ UNCHANGED <<flatVars, results, script, format, raw, dirs, log, now, net>>

Next ==
    \/ Prices_get_product_data
    \/ Prices_check_results
    \/ Prices_create_dataframe
    \/ Prices_export_validate
    \/ Prices_makedirs
    \/ Prices_write
    \/ Json_next_item
    \/ Json_get_product_data
    \/ Json_create_data
    \/ Json_makedirs
    \/ Json_save_as_json

Spec == Init /\ [][Next]_vars

---------------------------------------------------------------------------
(* What the claims speak of, read off the input without the code's         *)
(* traversal.                                                              *)

\* the value a key path leads to; Absent when a key on the way is missing or
\* the value reached before the last key is null
RECURSIVE Resolve(_, _)
Resolve(root, keys) ==
    IF keys = <<>> THEN root
    ELSE IF root.t = "dict" /\ Head(keys) \in DOMAIN root.d
        THEN Resolve(root.d[Head(keys)], Tail(keys))
    ELSE Absent

Has(x, k) == x.t = "dict" /\ k \in DOMAIN x.d

AislesOf(d) ==
    LET v == Resolve(d, <<"search_result", "aisles">>)
    IN IF v = Absent THEN <<>> ELSE v.l

ProductsOf(a) == IF Has(a, "products") THEN a.d.products.l ELSE <<>>

RECURSIVE AisleOccurrences(_, _, _)
AisleOccurrences(res, s, a) ==
    LET as == AislesOf(res.l[s])
    IN IF a > Len(as) THEN <<>>
       ELSE [p \in 1..Len(ProductsOf(as[a])) |-> <<s, a, p>>]
            \o AisleOccurrences(res, s, a + 1)

RECURSIVE StoreOccurrences(_, _)
StoreOccurrences(res, s) ==
    IF s > Len(res.l) THEN <<>>
    ELSE AisleOccurrences(res, s, 1) \o StoreOccurrences(res, s + 1)

\* one triple of positions <<store, aisle, product>> per product occurrence,
\* in nested traversal order
Occurrences(res) == StoreOccurrences(res, 1)

IsPlaceholder(v) == v \in {Null, EmptyStr}

Flattened   == pc \in {"create_dataframe", "create_data"}
RowBuilt    == pc \in {"prices_create_row", "json_create_row"}

\* every store result has a list of aisles, every aisle a list of products
WellFormed(res) ==
    \A s \in 1..Len(res.l) :
        /\ Resolve(res.l[s], <<"search_result", "aisles">>) # Absent
        /\ \A a \in 1..Len(AislesOf(res.l[s])) :
              Has(AislesOf(res.l[s])[a], "products")

AllProductsComplete(res) ==
    LET occ == Occurrences(res)
    IN \A k \in 1..Len(occ) :
          Has(ProductsOf(AislesOf(res.l[occ[k][1]])[occ[k][2]])[occ[k][3]],
              "brand")

SomeStoreLacksAisles(res) ==
    \E s \in 1..Len(res.l) :
        Resolve(res.l[s], <<"search_result", "aisles">>) = Absent

---------------------------------------------------------------------------
(* Claims on the flatteners (SpecFlat). *)

\* C1: for every list of store results in which each store has a list of
\* aisles and each aisle a list of products, the flattener returns exactly
\* one record per product occurrence: as many records as the sum over
\* stores, over aisles, of the products of the aisle.
C1_OneRecordPerProduct ==
    (Flattened /\ WellFormed(results)) =>
        /\ ~IsRaise(ret)
        /\ Len(ret.l) = Len(Occurrences(results))

\* C4: when a store result has no aisle list (no `aisles` key, or no
\* `search_result`), and every product of the input is complete, the
\* flattener raises nothing and returns the records of the other stores.
C4_MissingAislesYieldNoRecords ==
    (Flattened /\ SomeStoreLacksAisles(results) /\ AllProductsComplete(results)) =>
        /\ ~IsRaise(ret)
        /\ Len(ret.l) = Len(Occurrences(results))

JsonRowCarries(row, d, a, p) ==
    /\ row.d.store_name = d.d.store.d.name
    /\ row.d.store_city = d.d.store.d.closest_branch.d.city
    /\ row.d.search_term = d.d.search_result.d.search_term
    /\ row.d.aisle_name = a.d.aisle_name
    /\ row.d.product_name = p.d.name
    /\ row.d.price = p.d.pricing.d.price.d.amount
    /\ row.d.package = p.d.package

PricesRowCarries(row, d, a, p) ==
    /\ row.d["Store Name"] = d.d.store.d.name
    /\ row.d["Store City"] = d.d.store.d.closest_branch.d.city
    /\ row.d["Search Term"] = d.d.search_result.d.search_term
    /\ row.d["Aisle Name"] = a.d.aisle_name
    /\ row.d["Product Name"] = p.d.name
    /\ row.d["Product Price"] = p.d.pricing.d.price.d.amount
    /\ row.d["Package"] = p.d.package

\* C8: the records returned are those of the product occurrences, in nested
\* traversal order (stores, then aisles, then products): the k-th record
\* is that of the k-th occurrence and carries the store name, store city
\* and search term of its store result, the aisle name of its aisle and the
\* name, price and package of its product.  The scenario response yields one
\* record: "Milk 1L", 5.5, "S1", "X", "milk".
C8_RecordsCarryContextInOrder ==
    (Flattened /\ ~IsRaise(ret)) =>
        LET occ == Occurrences(results)
        IN /\ Len(ret.l) = Len(occ)
           /\ \A k \in 1..Len(occ) :
                LET d == results.l[occ[k][1]]
                    a == AislesOf(d)[occ[k][2]]
                    p == ProductsOf(a)[occ[k][3]]
                IN IF pc = "create_data"
                   THEN JsonRowCarries(ret.l[k], d, a, p)
                   ELSE PricesRowCarries(ret.l[k], d, a, p)
           /\ (results = ScenarioResults) =>
                /\ Len(ret.l) = 1
                /\ IF pc = "create_data"
                   THEN /\ ret.l[1].d.product_name = Str("Milk 1L")
                        /\ ret.l[1].d.price = Num(55)
                        /\ ret.l[1].d.store_name = Str("S1")
                        /\ ret.l[1].d.store_city = Str("X")
                        /\ ret.l[1].d.search_term = Str("milk")
                   ELSE /\ ret.l[1].d["Product Name"] = Str("Milk 1L")
                        /\ ret.l[1].d["Product Price"] = Num(55)
                        /\ ret.l[1].d["Store Name"] = Str("S1")
                        /\ ret.l[1].d["Store City"] = Str("X")
                        /\ ret.l[1].d["Search Term"] = Str("milk")

\* two stores, the first the scenario's, were flattened into three records
\* or more by create_dataframe
C8_Witness ==
    /\ pc = "create_dataframe"
    /\ Len(results.l) = 2
    /\ results.l[1] = ScenarioResults.l[1]
    /\ ~IsRaise(ret)
    /\ Len(ret.l) >= 3

---------------------------------------------------------------------------
(* Claims on create_row and get_nested (SpecRow). *)

\* every part of the input other than the optional product keys is fully
\* populated
OtherwiseComplete ==
    /\ data = Obj([store |-> FullStore,
                   search_result |-> Obj([search_term |-> Str("milk")])])
    /\ Has(product, "brand") => product.d.brand = FullBrand
    /\ Has(product, "pricing") => product.d.pricing = FullPricing

\* C2: for a product in which `brand`, `pricing` or `package` is missing
\* (the rest of the input being complete), create_row of either script
\* raises nothing and the brand, brand id, price and package fields of the
\* missing keys hold the placeholder (null or the empty string).
C2_MissingKeysYieldPlaceholder ==
    (RowBuilt /\ OtherwiseComplete) =>
        /\ ~Has(product, "brand") =>
              /\ ~IsRaise(ret)
              /\ IsPlaceholder(IF pc = "json_create_row" THEN ret.d.brand
                               ELSE ret.d["Brand"])
              /\ pc = "prices_create_row" => IsPlaceholder(ret.d["Brand ID"])
        /\ ~Has(product, "pricing") =>
              /\ ~IsRaise(ret)
              /\ IsPlaceholder(IF pc = "json_create_row" THEN ret.d.price
                               ELSE ret.d["Product Price"])
        /\ ~Has(product, "package") =>
              /\ ~IsRaise(ret)
              /\ IsPlaceholder(IF pc = "json_create_row" THEN ret.d.package
                               ELSE ret.d["Package"])

\* what the safe nested get is to return: the stored value when the whole
\* path is present, the placeholder otherwise
SafeGet(root, keys, placeholder) ==
    IF Resolve(root, keys) = Absent THEN placeholder ELSE Resolve(root, keys)

\* C9: get_nested, and the chained .get extraction of the price, brand,
\* store and search-term fields in create_row of get_prices.py, raise
\* nothing and return the placeholder when a key on the path is missing or
\* a value before the last key is null, and the stored value when the whole
\* path is present.  For create_row the products taken are those with a
\* `brand` key, the missing key being the case of C2.
C9_NestedGetShortCircuits ==
    /\ pc = "get_nested" =>
          ret = SafeGet(IF path.root = "product" THEN product ELSE data,
                        path.keys, Null)
    /\ (pc = "prices_create_row" /\ Has(product, "brand")) =>
          /\ ~IsRaise(ret)
          /\ ret.d["Product Price"] =
                SafeGet(product, <<"pricing", "price", "amount">>, EmptyStr)
          /\ ret.d["Brand"] = SafeGet(product, <<"brand", "name">>, EmptyStr)
          /\ ret.d["Brand ID"] = SafeGet(product, <<"brand", "id">>, EmptyStr)
          /\ ret.d["Store Name"] = SafeGet(data, <<"store", "name">>, EmptyStr)
          /\ ret.d["Store ID"] = SafeGet(data, <<"store", "id">>, EmptyStr)
          /\ ret.d["Store City"] =
                SafeGet(data, <<"store", "closest_branch", "city">>, EmptyStr)
          /\ ret.d["Search Term"] =
                SafeGet(data, <<"search_result", "search_term">>, EmptyStr)

---------------------------------------------------------------------------
(* Claims on the scripts run end to end (Spec). *)

Last(q) == q[Len(q)]

ResultsNotAList(r) ==
    r.t = "dict" /\ (Has(r, "results") => r.d.results.t # "list")

FlattenCalled == called \cap {"create_dataframe", "create_data"} # {}

\* C3: after a successful fetch of a body in which `results` is absent or
\* is not a list, fetch-and-flatten of either script raises nothing and
\* yields no record.
C3_NoListYieldsNoRecords ==
    (net = "ok" /\ ResultsNotAList(raw)) =>
        /\ ~(pc = "raised" /\ "makedirs" \notin called)
        /\ (FlattenCalled /\ ret.t = "list") => ret.l = <<>>

AfterFetch == {"create_dataframe", "create_data", "export_data", "makedirs",
               "write", "save_as_json"}

C6_UnsupportedFormatFailsBeforeIO ==
    /\ [][(pc = "p_export" /\ format \notin SupportedFormats) =>
            /\ pc' = "raised"
            /\ ret' = Raise("ValueError")
            /\ UNCHANGED <<dirs, files>>]_vars
    /\ []((script = "get_prices" /\ format \notin SupportedFormats) =>
            /\ pc \notin {"p_makedirs", "p_write", "done"}
            /\ called \cap {"makedirs", "write"} = {})

\* export_data raised on "xml" and the target directory was not created
C6_Witness ==
    /\ format = "xml"
    /\ "export_data" \in called
    /\ pc = "raised"
    /\ PricesDir \notin dirs
    /\ files = <<>>

PricesFilePath == [dir |-> PricesDir, base |-> PricesBase, ts |-> now,
                   ext |-> format]

FlattenFailed ==
    /\ "create_data" \in called
    /\ LET json_data == PyGet(raw, "results", EmptyList)
       IN IsRaise(json_data) \/ IsRaise(create_data(today, json_data))

Failed ==
    \/ net \in NetFailures
    \/ io \in {"makedirs_failed", "write_failed"}
    \/ FlattenFailed

\* C10: in the batch loop of get_json.py a failure of the fetch, the
\* flattening, makedirs or the save of a term leaves the script raised;
\* after it no step fetches, advances the loop or touches the file system;
\* and no step ever changes or removes a file written before it.
C10_BatchFailurePropagates ==
    /\ []((script = "get_json" /\ Failed) => (pc = "raised" /\ IsRaise(ret)))
    /\ [][(script = "get_json" /\ Failed) =>
            UNCHANGED <<files, dirs, now, idx, net, io>>]_vars
    /\ [][script = "get_json" =>
            \A f \in DOMAIN files :
                f \in DOMAIN files' /\ files'[f] = files[f]]_vars

\* the save of the third term failed after two files had been written
C10_Witness ==
    /\ script = "get_json"
    /\ pc = "raised"
    /\ io = "write_failed"
    /\ idx.c = 2
    /\ Cardinality({f \in DOMAIN files : files[f].complete}) = MaxItems

=============================================================================
